---- MODULE Spec2Model ----
(***************************************************************************)
(* Model of mhubio's NiftiConverter module                                 *)
(* (src/mhubio/modules/convert/NiftiConverter.py): the task() controller,  *)
(* the plastimatch adapter and the dcm2niix adapter, over a filesystem of  *)
(* output and log files.                                                   *)
(*                                                                         *)
(* Python indices are 0-based; the sequences below are 1-based, so the     *)
(* item the code calls i is item i+1 here.                                 *)
(***************************************************************************)
EXTENDS Integers, Sequences, FiniteSets, TLC

\* ------------------------------------------------------------------ bounds
\* largest number of artifacts resolved for one instance
MaxItems == 2
\* largest number of task invocations on one instance (SpecRerun only)
MaxRuns == 2

\* ------------------------------------------------- program constants
\* os.path.basename(out_data.abspath)[:-7]
SuffixLen == 7

\* NiftiConverterEngine members, plus a value that is neither of them
PLASTIMATCH == "plastimatch"
DCM2NIIX == "dcm2niix"
OTHER_ENGINE == "other"
Engines == {PLASTIMATCH, DCM2NIIX, OTHER_ENGINE}

\* FileType of an input: the two the task dispatches on, plus any other
DICOM == "DICOM"
NRRD == "NRRD"
OTHER_FTYPE == "OTHER"
FileTypes == {DICOM, NRRD, OTHER_FTYPE}

\* ------------------------------------------------------------------ paths
\* A path is a sequence of one-character strings.
NiiGz == <<".", "n", "i", "i", ".", "g", "z">>
Nii == <<".", "n", "i", "i">>
\* values of the converted_file_name template after [basename]
ConvertedSuffixes == {NiiGz, Nii}
PmconvLog == <<".", "p", "m", "c", "o", "n", "v", ".", "l", "o", "g">>
Digits == <<"1", "2", "3", "4", "5", "6", "7", "8", "9">>
\* [basename] of the k-th resolved input
BaseName(k) == <<"f", Digits[k]>>
\* directory of the instance's input data
InDir == <<"/", "i">>
\* directory of the bundle bundle_name, shared by outputs and logs
BundleDir == <<"/", "n">>
InPath(k) == InDir \o <<"/">> \o BaseName(k)
OutPath(k, suffix) == BundleDir \o <<"/">> \o BaseName(k) \o suffix
LogPath(k) == BundleDir \o <<"/">> \o BaseName(k) \o PmconvLog

\* ---------------------------------------------------------------- os.path
RECURSIVE LastSlash(_)
LastSlash(p) ==
    IF p = <<>> THEN 0
    ELSE IF p[Len(p)] = "/" THEN Len(p)
    ELSE LastSlash(SubSeq(p, 1, Len(p) - 1))

\* os.path.dirname
dirname(p) ==
    LET k == LastSlash(p)
    IN  IF k = 0 THEN <<>> ELSE IF k = 1 THEN <<"/">> ELSE SubSeq(p, 1, k - 1)

\* os.path.basename
basename(p) == SubSeq(p, LastSlash(p) + 1, Len(p))

\* str.endswith
endswith(p, s) ==
    /\ Len(p) >= Len(s)
    /\ SubSeq(p, Len(p) - Len(s) + 1, Len(p)) = s

\* os.path.isfile, os.remove and a write, on a filesystem fs: path -> content
isfile(fs, p) == p \in DOMAIN fs
remove(fs, p) == [q \in DOMAIN fs \ {p} |-> fs[q]]
write(fs, p, c) == [q \in DOMAIN fs \cup {p} |-> IF q = p THEN c ELSE fs[q]]

\* content of a file that was on disk before the first task invocation
Pre == [by |-> "pre", run |-> 0, idx |-> 0]
\* content written by a backend run
Written(by, r, k) == [by |-> by, run |-> r, idx |-> k]

\* ------------------------------------------------------------------ state
VARIABLES
    engine,                  \* self.engine
    allow_multi_input,       \* self.allow_multi_input
    overwrite_existing_file, \* self.overwrite_existing_file
    resolved,                \* the in_datas argument as the framework resolved it
    out_datas,               \* the out_datas argument: output paths
    log_datas,               \* the log_datas argument: log paths
    in_datas,                \* the local in_datas (narrowed at line 135)
    i,                       \* loop index of the conversion step (1-based)
    pc,                      \* position of the task invocation
    files,                   \* the filesystem: path -> content
    confirmed,               \* log paths whose LogArtifact was confirm()ed
    messages,                \* what the task printed, in order
    fault,                   \* the exception that left task(), or "none"
    invocations,             \* backend invocations of this task invocation
    fsops,                   \* file removals and writes of this task invocation
    status,                  \* per resolved item: Pending, then Skipped (line 145),
                             \* Converting (backend called), Converted (it
                             \* returned) or Fatal (it raised)
    seen,                    \* per resolved item: what line 143 found at its output path
    files0,                  \* the filesystem when this task invocation started
    run,                     \* number of the current task invocation
    prev                     \* status at the end of the previous task invocation

vars == <<engine, allow_multi_input, overwrite_existing_file, resolved,
          out_datas, log_datas, in_datas, i, pc, files, confirmed, messages,
          fault, invocations, fsops, status, seen, files0, run, prev>>

config == <<engine, allow_multi_input, overwrite_existing_file>>
args == <<resolved, out_datas, log_datas>>

\* an InstanceData of the input collection
InData(k, ft) == [ftype |-> ft, abspath |-> InPath(k)]

\* lengths the output and log collections may have beside n inputs: the
\* framework derives both from in_datas (equal lengths); a direct caller of
\* task() may pass a collection an element short or an element long
Lengths(n) == {n - 1, n, n + 1} \cap (0..MaxItems)

Init ==
    /\ engine \in Engines
    /\ allow_multi_input \in BOOLEAN
    /\ overwrite_existing_file \in BOOLEAN
    /\ \E n \in 0..MaxItems, suffix \in ConvertedSuffixes :
         /\ \E fts \in [1..n -> FileTypes] :
                resolved = [k \in 1..n |-> InData(k, fts[k])]
         /\ \E no \in Lengths(n), nl \in Lengths(n) :
              /\ out_datas = [k \in 1..no |-> OutPath(k, suffix)]
              /\ log_datas = [k \in 1..nl |-> LogPath(k)]
    /\ \E E \in SUBSET ({out_datas[k] : k \in DOMAIN out_datas}
                         \cup {log_datas[k] : k \in DOMAIN log_datas}) :
           files = [p \in E |-> Pre]
    /\ in_datas = resolved
    /\ i = 1
    /\ pc = "start"
    /\ confirmed = {}
    /\ messages = <<>>
    /\ fault = "none"
    /\ invocations = <<>>
    /\ fsops = <<>>
    /\ status = [k \in DOMAIN resolved |-> "Pending"]
    /\ seen = [k \in DOMAIN resolved |-> "unseen"]
    /\ files0 = files
    /\ run = 1
    /\ prev = [k \in DOMAIN resolved |-> "None"]

\* ------------------------------------------------------------- messages
Msg(kind, arg) == [kind |-> kind, arg |-> arg]
NoDataMsg == Msg("no_data", <<>>)
MultiWarning == Msg("multi_warning", <<>>)
ExistsMsg(p) == Msg("exists", p)

\* --------------------------------------------------- task(): lines 121-135
\* the length asserts of lines 124-125
LengthsAligned ==
    /\ Len(resolved) = Len(out_datas)
    /\ Len(resolved) = Len(log_datas)

\* line 133: narrowing applies
MustNarrow(allow, datas) == ~allow /\ Len(datas) > 1

\* line 135 left out: every resolved input stays in the batch
Narrow_all(allow, datas) == datas

\* line 135 keeping the last input instead of the first
Narrow_last(allow, datas) ==
    IF MustNarrow(allow, datas) THEN <<datas[Len(datas)]>> ELSE datas

\* line 135: InstanceDataCollection([in_datas.first()])
Narrow(allow, datas) ==
    IF MustNarrow(allow, datas) THEN <<Head(datas)>> ELSE datas

\* lines 124-125 as a reported condition: print and return instead of assert
TaskMisaligned_reported ==
    /\ pc = "start"
    /\ ~LengthsAligned
    /\ messages' = Append(messages, Msg("misaligned", <<>>))
    /\ pc' = "done"
    /\ UNCHANGED <<config, args, in_datas, i, files, confirmed, fault,
                   invocations, fsops, status, seen, files0, run, prev>>

\* lines 124-125: an assert fails; nothing was printed or touched before it
TaskMisaligned ==
    /\ pc = "start"
    /\ ~LengthsAligned
    /\ fault' = "AssertionError"
    /\ pc' = "aborted"
    /\ UNCHANGED <<config, args, in_datas, i, files, confirmed, messages,
                   invocations, fsops, status, seen, files0, run, prev>>

\* lines 128-130 left out: an empty collection goes straight to the loop
TaskNoData_unchecked ==
    /\ pc = "start"
    /\ LengthsAligned
    /\ Len(resolved) = 0
    /\ pc' = "loop"
    /\ UNCHANGED <<config, args, in_datas, i, files, confirmed, messages,
                   fault, invocations, fsops, status, seen, files0, run, prev>>

\* lines 128-130: empty collection, one message, return None
TaskNoData ==
    /\ pc = "start"
    /\ LengthsAligned
    /\ Len(resolved) = 0
    /\ messages' = Append(messages, NoDataMsg)
    /\ pc' = "done"
    /\ UNCHANGED <<config, args, in_datas, i, files, confirmed, fault,
                   invocations, fsops, status, seen, files0, run, prev>>

\* lines 133-138: optional narrowing with its warning, then the loop starts
TaskBegin ==
    /\ pc = "start"
    /\ LengthsAligned
    /\ Len(resolved) > 0
    /\ messages' = IF MustNarrow(allow_multi_input, resolved)
                   THEN Append(messages, MultiWarning) ELSE messages
    /\ in_datas' = Narrow(allow_multi_input, resolved)
    /\ i' = 1
    /\ pc' = "loop"
    /\ UNCHANGED <<config, args, files, confirmed, fault, invocations, fsops,
                   status, seen, files0, run, prev>>

\* --------------------------------------------------- task(): lines 138-161
\* the item the loop is at, with the output and log at the same index
InLoop == pc = "loop" /\ i <= Len(in_datas)
in_data == in_datas[i]
out_data == out_datas[i]
log_data == log_datas[i]

\* line 143 with the overwrite flag read the wrong way round
ShouldSkip_inverted(fs, out, overwrite) == isfile(fs, out) /\ overwrite

\* line 143 left out: an existing output never stops the conversion
ShouldSkip_never(fs, out, overwrite) == FALSE

\* line 143 without the overwrite flag: an existing output is always skipped
ShouldSkip_always(fs, out, overwrite) == isfile(fs, out)

\* line 143: the output exists and must not be overwritten
ShouldSkip(fs, out, overwrite) == isfile(fs, out) /\ ~overwrite

\* lines 153-156 with a bare else: any engine but plastimatch runs dcm2niix
SelectBackend_fallthrough(ftype, eng) ==
    IF ftype = DICOM
    THEN IF eng = PLASTIMATCH THEN "plastimatch" ELSE "dcm2niix"
    ELSE IF ftype = NRRD THEN "plastimatch"
    ELSE "none"

\* lines 148-161 with NRRD inputs dispatched on the engine like DICOM ones
SelectBackend_byEngine(ftype, eng) ==
    IF ftype \in {DICOM, NRRD}
    THEN IF eng = PLASTIMATCH THEN "plastimatch"
         ELSE IF eng = DCM2NIIX THEN "dcm2niix"
         ELSE "unknown"
    ELSE "none"

\* lines 158-161 left out: only DICOM inputs are dispatched
SelectBackend_dicomOnly(ftype, eng) ==
    IF ftype = DICOM
    THEN IF eng = PLASTIMATCH THEN "plastimatch"
         ELSE IF eng = DCM2NIIX THEN "dcm2niix"
         ELSE "unknown"
    ELSE "none"

\* line 158 as a bare else: every input that is not DICOM goes to plastimatch
SelectBackend_elsePlastimatch(ftype, eng) ==
    IF ftype = DICOM
    THEN IF eng = PLASTIMATCH THEN "plastimatch"
         ELSE IF eng = DCM2NIIX THEN "dcm2niix"
         ELSE "unknown"
    ELSE "plastimatch"

\* lines 148-161: the adapter an item that is not skipped is handed to;
\* "unknown" is the ValueError of line 156, "none" the fall-through of an
\* input that is neither DICOM nor NRRD
SelectBackend(ftype, eng) ==
    IF ftype = DICOM
    THEN IF eng = PLASTIMATCH THEN "plastimatch"
         ELSE IF eng = DCM2NIIX THEN "dcm2niix"
         ELSE "unknown"
    ELSE IF ftype = NRRD THEN "plastimatch"
    ELSE "none"

\* what line 143 found at the output path of the item being examined
Examined == [seen EXCEPT ![i] = IF isfile(files, out_data) THEN "present" ELSE "absent"]

Reached == InLoop /\ ~ShouldSkip(files, out_data, overwrite_existing_file)

\* the for loop is exhausted: task() returns
LoopExit ==
    /\ pc = "loop"
    /\ i > Len(in_datas)
    /\ pc' = "done"
    /\ UNCHANGED <<config, args, in_datas, i, files, confirmed, messages,
                   fault, invocations, fsops, status, seen, files0, run, prev>>

\* line 145 with break in place of continue: the first skip ends the loop
Skip_break ==
    /\ InLoop
    /\ ShouldSkip(files, out_data, overwrite_existing_file)
    /\ messages' = Append(messages, ExistsMsg(out_data))
    /\ status' = [status EXCEPT ![i] = "Skipped"]
    /\ seen' = [seen EXCEPT ![i] = "present"]
    /\ pc' = "done"
    /\ UNCHANGED <<config, args, in_datas, i, files, confirmed, fault,
                   invocations, fsops, files0, run, prev>>

\* lines 143-145: print "File already exists" and continue
Skip ==
    /\ InLoop
    /\ ShouldSkip(files, out_data, overwrite_existing_file)
    /\ messages' = Append(messages, ExistsMsg(out_data))
    /\ status' = [status EXCEPT ![i] = "Skipped"]
    /\ seen' = Examined
    /\ i' = i + 1
    /\ UNCHANGED <<config, args, in_datas, pc, files, confirmed, fault,
                   invocations, fsops, files0, run, prev>>

\* lines 148-161 with an input that is neither DICOM nor NRRD: nothing happens
OtherFormat ==
    /\ Reached
    /\ SelectBackend(in_data.ftype, engine) = "none"
    /\ seen' = Examined
    /\ i' = i + 1
    /\ UNCHANGED <<config, args, in_datas, pc, files, confirmed, messages,
                   fault, invocations, fsops, status, files0, run, prev>>

\* line 156: raise ValueError, uncaught
UnknownEngine ==
    /\ Reached
    /\ SelectBackend(in_data.ftype, engine) = "unknown"
    /\ seen' = Examined
    /\ fault' = "ValueError"
    /\ pc' = "aborted"
    /\ UNCHANGED <<config, args, in_datas, i, files, confirmed, messages,
                   invocations, fsops, status, files0, run, prev>>

\* ---------------------------------------------- plastimatch(): lines 49-75
\* lines 64-65 left out: the old log stays where it is
RemoveOldLog_keep(fs, log) == fs

\* lines 64-65: remove old log file if it exists
RemoveOldLog(fs, log) == IF isfile(fs, log) THEN remove(fs, log) ELSE fs

\* line 74 left out: the log is confirmed whether or not it is on disk
ConfirmLog_always(fs, log, conf) == conf \cup {log}

\* lines 74-75: confirm the log if it is on disk
ConfirmLog(fs, log, conf) == IF isfile(fs, log) THEN conf \cup {log} ELSE conf

PlastimatchInvocation ==
    [engine |-> PLASTIMATCH, idx |-> i, input |-> in_data.abspath,
     output |-> out_data, log |-> log_data, o |-> <<>>, f |-> <<>>,
     result |-> "running"]

\* line 68 made asynchronous: the backend is started and the loop goes on
\* without waiting for it
PlastimatchCall_async ==
    /\ Reached
    /\ SelectBackend(in_data.ftype, engine) = "plastimatch"
    /\ seen' = Examined
    /\ status' = [status EXCEPT ![i] = "Converting"]
    /\ files' = RemoveOldLog(files, log_data)
    /\ fsops' = IF isfile(files, log_data)
                THEN Append(fsops, <<"remove", log_data>>) ELSE fsops
    /\ invocations' = Append(invocations, PlastimatchInvocation)
    /\ i' = i + 1
    /\ UNCHANGED <<config, args, in_datas, pc, confirmed, messages, fault,
                   files0, run, prev>>

\* lines 152/161 and 58-68: the adapter is entered, the old log removed and
\* pypla.convert called with input, output-img and path_to_log_file
PlastimatchCall ==
    /\ Reached
    /\ SelectBackend(in_data.ftype, engine) = "plastimatch"
    /\ seen' = Examined
    /\ status' = [status EXCEPT ![i] = "Converting"]
    /\ files' = RemoveOldLog(files, log_data)
    /\ fsops' = IF isfile(files, log_data)
                THEN Append(fsops, <<"remove", log_data>>) ELSE fsops
    /\ invocations' = Append(invocations, PlastimatchInvocation)
    /\ pc' = "plastimatch"
    /\ UNCHANGED <<config, args, in_datas, i, confirmed, messages, fault,
                   files0, run, prev>>

\* the invocation in progress, and the invocation list with its result set
Current == invocations[Len(invocations)]
Finished(res) == [invocations EXCEPT ![Len(invocations)].result = res]

\* the filesystem after plastimatch ran: the output image when it succeeded,
\* and the log when the external process wrote one
PlastimatchWrites(fs, inv, ok, logWritten) ==
    LET c == Written(PLASTIMATCH, run, inv.idx)
        withOut == IF ok THEN write(fs, inv.output, c) ELSE fs
    IN  IF logWritten THEN write(withOut, inv.log, c) ELSE withOut

PlastimatchOps(inv, ok, logWritten) ==
    (IF ok THEN <<<<"write", inv.output>>>> ELSE <<>>)
    \o (IF logWritten THEN <<<<"write", inv.log>>>> ELSE <<>>)

\* lines 68-75: pypla.convert returned; the log is confirmed if present and
\* the loop goes on
PlastimatchReturn ==
    /\ pc = "plastimatch"
    /\ \E logWritten \in BOOLEAN :
         /\ files' = PlastimatchWrites(files, Current, TRUE, logWritten)
         /\ fsops' = fsops \o PlastimatchOps(Current, TRUE, logWritten)
    /\ confirmed' = ConfirmLog(files', Current.log, confirmed)
    /\ invocations' = Finished("ok")
    /\ status' = [status EXCEPT ![i] = "Converted"]
    /\ i' = i + 1
    /\ pc' = "loop"
    /\ UNCHANGED <<config, args, in_datas, messages, fault, seen, files0,
                   run, prev>>

\* line 68 wrapped in a try/except that swallows the fault: the loop goes on
PlastimatchRaise_swallowed ==
    /\ pc = "plastimatch"
    /\ invocations' = [invocations EXCEPT ![Len(invocations)].result = "failed"]
    /\ status' = [status EXCEPT ![i] = "Fatal"]
    /\ i' = i + 1
    /\ pc' = "loop"
    /\ UNCHANGED <<config, args, in_datas, files, confirmed, messages, fault,
                   fsops, seen, files0, run, prev>>

\* line 68 wrapped in a retry: after a fault the loop takes the same item again
PlastimatchRaise_retry ==
    /\ pc = "plastimatch"
    /\ invocations' = [invocations EXCEPT ![Len(invocations)].result = "failed"]
    /\ status' = [status EXCEPT ![i] = "Fatal"]
    /\ pc' = "loop"
    /\ UNCHANGED <<config, args, in_datas, i, files, confirmed, messages,
                   fault, fsops, seen, files0, run, prev>>

\* line 68: pypla.convert raised; nothing catches it
PlastimatchRaise ==
    /\ pc = "plastimatch"
    /\ \E logWritten \in BOOLEAN :
         /\ files' = PlastimatchWrites(files, Current, FALSE, logWritten)
         /\ fsops' = fsops \o PlastimatchOps(Current, FALSE, logWritten)
    /\ invocations' = Finished("failed")
    /\ status' = [status EXCEPT ![i] = "Fatal"]
    /\ fault' = "BackendError"
    /\ pc' = "aborted"
    /\ UNCHANGED <<config, args, in_datas, i, confirmed, messages, seen,
                   files0, run, prev>>

\* ------------------------------------------------- dcm2nii(): lines 77-113
\* line 95
out_data_dir(p) == dirname(p)
\* line 96 cutting only the length of ".nii" off the basename
out_data_file_short(p) == SubSeq(basename(p), 1, Len(basename(p)) - Len(Nii))

\* line 96: the basename without its last 7 characters
out_data_file(p) == SubSeq(basename(p), 1, Len(basename(p)) - SuffixLen)

\* the file dcm2niix writes for -o dir -f name -z y
Dcm2niixTarget(dir, name) == dir \o <<"/">> \o name \o NiiGz

Dcm2niiInvocation ==
    [engine |-> DCM2NIIX, idx |-> i, input |-> in_data.abspath,
     output |-> out_data, log |-> <<>>, o |-> out_data_dir(out_data),
     f |-> out_data_file(out_data), result |-> "running"]

\* line 94: the assert fails before any command is built
Dcm2niiAssertFail ==
    /\ Reached
    /\ SelectBackend(in_data.ftype, engine) = "dcm2niix"
    /\ ~endswith(out_data, NiiGz)
    /\ seen' = Examined
    /\ fault' = "AssertionError"
    /\ pc' = "aborted"
    /\ UNCHANGED <<config, args, in_datas, i, files, confirmed, messages,
                   invocations, fsops, status, files0, run, prev>>

\* lines 154 and 94-113: the command is built and subprocess.run called
Dcm2niiCall ==
    /\ Reached
    /\ SelectBackend(in_data.ftype, engine) = "dcm2niix"
    /\ endswith(out_data, NiiGz)
    /\ seen' = Examined
    /\ status' = [status EXCEPT ![i] = "Converting"]
    /\ invocations' = Append(invocations, Dcm2niiInvocation)
    /\ pc' = "dcm2nii"
    /\ UNCHANGED <<config, args, in_datas, i, files, confirmed, messages,
                   fault, fsops, files0, run, prev>>

\* lines 74-75 copied into dcm2nii(): a log found at the item's log path is
\* confirmed after dcm2niix ran
Dcm2niiReturn_confirms ==
    /\ pc = "dcm2nii"
    /\ LET target == Dcm2niixTarget(Current.o, Current.f)
       IN  /\ files' = write(files, target, Written(DCM2NIIX, run, Current.idx))
           /\ fsops' = Append(fsops, <<"write", target>>)
    /\ confirmed' = ConfirmLog(files', log_data, confirmed)
    /\ invocations' = Finished("ok")
    /\ status' = [status EXCEPT ![i] = "Converted"]
    /\ i' = i + 1
    /\ pc' = "loop"
    /\ UNCHANGED <<config, args, in_datas, messages, fault, seen, files0,
                   run, prev>>

\* line 113: dcm2niix exited 0 and wrote its compressed output
Dcm2niiReturn ==
    /\ pc = "dcm2nii"
    /\ LET target == Dcm2niixTarget(Current.o, Current.f)
       IN  /\ files' = write(files, target, Written(DCM2NIIX, run, Current.idx))
           /\ fsops' = Append(fsops, <<"write", target>>)
    /\ invocations' = Finished("ok")
    /\ status' = [status EXCEPT ![i] = "Converted"]
    /\ i' = i + 1
    /\ pc' = "loop"
    /\ UNCHANGED <<config, args, in_datas, confirmed, messages, fault, seen,
                   files0, run, prev>>

\* line 113: check=True turns a non-zero exit into CalledProcessError
Dcm2niiRaise ==
    /\ pc = "dcm2nii"
    /\ invocations' = Finished("failed")
    /\ status' = [status EXCEPT ![i] = "Fatal"]
    /\ fault' = "BackendError"
    /\ pc' = "aborted"
    /\ UNCHANGED <<config, args, in_datas, i, files, confirmed, messages,
                   fsops, seen, files0, run, prev>>

\* ------------------------------------------------------- specification
Next ==
    \/ TaskMisaligned
    \/ TaskNoData
    \/ TaskBegin
    \/ LoopExit
    \/ Skip
    \/ OtherFormat
    \/ UnknownEngine
    \/ PlastimatchCall
    \/ PlastimatchReturn
    \/ PlastimatchRaise
    \/ Dcm2niiAssertFail
    \/ Dcm2niiCall
    \/ Dcm2niiReturn
    \/ Dcm2niiRaise

Spec == Init /\ [][Next]_vars

\* task() is straight-line sequential code, so each of its steps is taken;
\* a backend call blocks until the external process returns or fails, and
\* that it does so is the hypothesis termination is claimed under
SpecFair == Init /\ [][Next]_vars /\ WF_vars(Next)

\* the framework calls task() again on the same instance with the same
\* configuration: fresh collections, the filesystem as the last run left it
Rerun ==
    /\ pc \in {"done", "aborted"}
    /\ run < MaxRuns
    /\ run' = run + 1
    /\ prev' = status
    /\ in_datas' = resolved
    /\ i' = 1
    /\ pc' = "start"
    /\ confirmed' = {}
    /\ messages' = <<>>
    /\ fault' = "none"
    /\ invocations' = <<>>
    /\ fsops' = <<>>
    /\ status' = [k \in DOMAIN resolved |-> "Pending"]
    /\ seen' = [k \in DOMAIN resolved |-> "unseen"]
    /\ files0' = files
    /\ UNCHANGED <<config, args, files>>

NextRerun == Next \/ Rerun

SpecRerun == Init /\ [][NextRerun]_vars

\* ------------------------------------------------------ shared vocabulary
Ended == pc \in {"done", "aborted"}
Range(sq) == {sq[n] : n \in DOMAIN sq}
\* the invocations made for the resolved item k
InvFor(k) == {n \in DOMAIN invocations : invocations[n].idx = k}
\* the file at p is what it was when the task invocation started
SameAt(p) ==
    /\ isfile(files, p) <=> isfile(files0, p)
    /\ isfile(files, p) => files[p] = files0[p]
\* no removal and no write touched p in this task invocation
Untouched(p) == \A n \in DOMAIN fsops : fsops[n][2] # p
\* the file a finished invocation wrote its image to
ImageOf(inv) ==
    IF inv.engine = PLASTIMATCH THEN inv.output
    ELSE Dcm2niixTarget(inv.o, inv.f)

\* ------------------------------------------------------------------ C1
\* C1: with more than one aligned triple and allow_multi_input false, only
\* the first item is ever processed: every backend invocation is for item 1
\* with output 1 and log 1, and once the task has ended item 1 was examined;
\* the other items are never examined, get no invocation, and the files at
\* their output and log paths are neither written nor removed.
C1_OnlyFirstProcessed ==
    (LengthsAligned /\ Len(resolved) > 1 /\ ~allow_multi_input) =>
        /\ \A n \in DOMAIN invocations :
             /\ invocations[n].idx = 1
             /\ invocations[n].input = resolved[1].abspath
             /\ invocations[n].output = out_datas[1]
             /\ invocations[n].log \in {<<>>, log_datas[1]}
        /\ Ended => seen[1] # "unseen"
        /\ \A k \in 2..Len(resolved) :
             /\ seen[k] = "unseen"
             /\ status[k] = "Pending"
             /\ InvFor(k) = {}
             /\ SameAt(out_datas[k]) /\ Untouched(out_datas[k])
             /\ SameAt(log_datas[k]) /\ Untouched(log_datas[k])

\* a narrowed batch of two whose first item was converted, with its warning
C1_Witness ==
    /\ pc = "done"
    /\ Len(resolved) > 1
    /\ ~allow_multi_input
    /\ MultiWarning \in Range(messages)
    /\ status[1] = "Converted"
    /\ Len(invocations) = 1

\* ------------------------------------------------------------------ C2
\* C2: an item whose output path held a file when line 143 reached it, with
\* overwrite_existing_file false, gets no backend invocation, its output file
\* is what it was when the task started, and "File already exists" was
\* printed for its path.
C2_ExistingOutputSkipped ==
    \A k \in DOMAIN seen :
        (seen[k] = "present" /\ ~overwrite_existing_file) =>
            /\ InvFor(k) = {}
            /\ status[k] = "Skipped"
            /\ isfile(files, out_datas[k])
            /\ SameAt(out_datas[k]) /\ Untouched(out_datas[k])
            /\ ExistsMsg(out_datas[k]) \in Range(messages)

\* item 1 skipped over its existing output, item 2 converted after it
C2_Witness ==
    /\ pc = "done"
    /\ ~overwrite_existing_file
    /\ Len(in_datas) = 2
    /\ seen[1] = "present" /\ status[1] = "Skipped"
    /\ status[2] = "Converted"
    /\ files[out_datas[1]] = Pre

\* ------------------------------------------------------------------ C3
\* C3: a failed backend invocation is the last invocation of the task: the
\* task has aborted with the backend's fault, the failing item was handed to
\* a backend exactly once, every earlier invocation was for an earlier item
\* and succeeded, and the image each of those wrote is still on disk.
C3_BackendFailureAborts ==
    \A n \in DOMAIN invocations :
        invocations[n].result = "failed" =>
            /\ n = Len(invocations)
            /\ pc = "aborted"
            /\ fault = "BackendError"
            /\ InvFor(invocations[n].idx) = {n}
            /\ \A k \in DOMAIN seen : k > invocations[n].idx => seen[k] = "unseen"
            /\ \A m \in 1..(n - 1) :
                 /\ invocations[m].idx < invocations[n].idx
                 /\ invocations[m].result = "ok"
                 /\ isfile(files, ImageOf(invocations[m]))
                 /\ files[ImageOf(invocations[m])]
                      = Written(invocations[m].engine, run, invocations[m].idx)

\* the backend failed on item 2 after item 1 was converted
C3_Witness ==
    /\ pc = "aborted"
    /\ fault = "BackendError"
    /\ Len(invocations) = 2
    /\ invocations[1].result = "ok"
    /\ invocations[2].result = "failed"
    /\ isfile(files, out_datas[1])

\* ------------------------------------------------------------------ C4
\* the batch is one DICOM input and the engine is neither supported value
UnknownEngineSingleDicom ==
    /\ LengthsAligned
    /\ Len(resolved) = 1
    /\ resolved[1].ftype = DICOM
    /\ engine \notin {PLASTIMATCH, DCM2NIIX}

\* C4 as stated: with an unsupported engine and a single DICOM input, no
\* backend is ever invoked, no file is written or removed, and the task ends
\* aborted with the unknown-engine fault.
C4_UnknownEngineAlwaysAborts ==
    UnknownEngineSingleDicom =>
        /\ invocations = <<>>
        /\ fsops = <<>>
        /\ files = files0
        /\ Ended => (pc = "aborted" /\ fault = "ValueError")

\* C4 as amended: the same, provided the item is not skipped (no file at its
\* output path, or overwrite_existing_file true); when the output exists and
\* overwrite is disabled the item is skipped at line 145 before the engine is
\* looked at, and the task returns normally with no fault.
C4_UnknownEngineAbortsUnlessSkipped ==
    UnknownEngineSingleDicom =>
        /\ invocations = <<>>
        /\ fsops = <<>>
        /\ files = files0
        /\ Ended =>
             IF ShouldSkip(files0, out_datas[1], overwrite_existing_file)
             THEN pc = "done" /\ fault = "none" /\ status[1] = "Skipped"
             ELSE pc = "aborted" /\ fault = "ValueError"

\* the unknown-engine fault raised over an existing output that may be
\* overwritten
C4_Witness ==
    /\ UnknownEngineSingleDicom
    /\ pc = "aborted"
    /\ fault = "ValueError"
    /\ isfile(files0, out_datas[1])
    /\ overwrite_existing_file

\* ------------------------------------------------------------------ C5
\* the items of the batch once it is narrowed
Processed == 1..Len(Narrow(allow_multi_input, resolved))

\* every item the task processes was converted by the previous invocation
AllConvertedBefore ==
    /\ LengthsAligned
    /\ Len(resolved) > 0
    /\ \A k \in Processed : prev[k] = "Converted"

\* C5: in a second task invocation with overwrite_existing_file false, on an
\* instance whose processed items were all converted by the first one, no
\* backend is invoked, no file changes, no fault is raised, and once the task
\* has returned every processed item is Skipped with its own "File already
\* exists" message.
C5_SecondRunSkipsAll ==
    (run = 2 /\ ~overwrite_existing_file /\ AllConvertedBefore) =>
        /\ invocations = <<>>
        /\ fsops = <<>>
        /\ files = files0
        /\ fault = "none"
        /\ pc # "aborted"
        /\ \A k \in Processed : isfile(files, out_datas[k])
        /\ pc = "done" =>
             \A k \in Processed :
                 /\ status[k] = "Skipped"
                 /\ ExistsMsg(out_datas[k]) \in Range(messages)

\* a second run over two converted items that has skipped both
C5_Witness ==
    /\ run = 2
    /\ pc = "done"
    /\ ~overwrite_existing_file
    /\ AllConvertedBefore
    /\ Len(in_datas) = 2
    /\ status[1] = "Skipped" /\ status[2] = "Skipped"
    /\ Len(messages) = 2

\* ------------------------------------------------------------------ C6
\* the log at an invocation's item is absent or was written by that invocation
LogIsOwn(inv) ==
    LET lp == log_datas[inv.idx]
    IN  isfile(files, lp) => files[lp] = Written(inv.engine, run, inv.idx)

\* C6 as stated: for every backend invocation, of either engine, a file at
\* the item's log path was written by that invocation (no stale log is left).
C6_NoStaleLogAnyEngine ==
    \A n \in DOMAIN invocations : LogIsOwn(invocations[n])

\* C6 as amended: for every invocation of Engine A (plastimatch) there is no
\* file at the item's log path while the backend runs, and a file there
\* afterwards was written by that invocation. Engine B (dcm2niix) is not
\* given the log path and leaves a stale log where it is.
C6_NoStaleLogEngineA ==
    \A n \in DOMAIN invocations :
        invocations[n].engine = PLASTIMATCH =>
            /\ invocations[n].log = log_datas[invocations[n].idx]
            /\ invocations[n].result = "running" => ~isfile(files, invocations[n].log)
            /\ LogIsOwn(invocations[n])

\* plastimatch ran over a stale log and wrote none: the stale log is gone
C6_Witness ==
    \E n \in DOMAIN invocations :
        /\ invocations[n].engine = PLASTIMATCH
        /\ invocations[n].result = "ok"
        /\ isfile(files0, invocations[n].log)
        /\ ~isfile(files, invocations[n].log)

\* ------------------------------------------------------------------ C7
\* C7: an NRRD item is only ever handed to plastimatch, and every NRRD item
\* that was examined and not skipped was handed to plastimatch, whatever the
\* configured engine is; the only fault such an item can end in is the
\* backend's own.
C7_NrrdAlwaysPlastimatch ==
    \A k \in DOMAIN resolved :
        resolved[k].ftype = NRRD =>
            /\ \A n \in InvFor(k) : invocations[n].engine = PLASTIMATCH
            /\ (seen[k] # "unseen" /\ status[k] # "Skipped") =>
                 /\ InvFor(k) # {}
                 /\ status[k] = "Fatal" => fault = "BackendError"

\* an NRRD item converted by plastimatch under an unsupported engine value
C7_Witness ==
    \E k \in DOMAIN resolved :
        /\ resolved[k].ftype = NRRD
        /\ engine = OTHER_ENGINE
        /\ status[k] = "Converted"
        /\ \E n \in InvFor(k) : invocations[n].engine = PLASTIMATCH

\* ------------------------------------------------------------------ C8
\* C8: after plastimatch returned for a DICOM item, the item's LogArtifact is
\* confirmed exactly when a file is at its log path; with or without a log
\* the item is Converted, the loop has moved past it, and a fault, if any,
\* was raised at a later item.
C8_LogConfirmedIffOnDisk ==
    \A n \in DOMAIN invocations :
        LET inv == invocations[n]
        IN  (inv.engine = PLASTIMATCH /\ inv.result = "ok"
             /\ resolved[inv.idx].ftype = DICOM) =>
                /\ inv.log \in confirmed <=> isfile(files, inv.log)
                /\ status[inv.idx] = "Converted"
                /\ i > inv.idx
                /\ fault # "none" => (pc = "aborted" /\ i > inv.idx)

\* plastimatch converted DICOM item 1 without leaving a log: the log is not
\* confirmed and item 2 was examined after it
C8_Witness ==
    /\ Len(invocations) >= 1
    /\ invocations[1].engine = PLASTIMATCH
    /\ invocations[1].result = "ok"
    /\ invocations[1].idx = 1
    /\ resolved[1].ftype = DICOM
    /\ ~isfile(files, log_datas[1])
    /\ log_datas[1] \notin confirmed
    /\ Len(seen) = 2 /\ seen[2] # "unseen"

\* ------------------------------------------------------------------ C9
\* C9: with empty input, output and log collections the task prints exactly
\* the "no data found" message and returns: no backend invocation, no file
\* written or removed, no LogArtifact confirmed, no fault.
C9_EmptyBatchReportsOnce ==
    (LengthsAligned /\ Len(resolved) = 0) =>
        /\ invocations = <<>>
        /\ fsops = <<>>
        /\ files = files0
        /\ confirmed = {}
        /\ fault = "none"
        /\ pc \in {"start", "done"}
        /\ messages = IF pc = "done" THEN <<NoDataMsg>> ELSE <<>>

\* the task returned from an empty batch with its one message
C9_Witness ==
    /\ Len(resolved) = 0
    /\ pc = "done"
    /\ messages = <<NoDataMsg>>

\* ------------------------------------------------------------------ C10
\* a batch of DICOM inputs, multi-input allowed, dcm2niix configured, no
\* output on disk when the task started
Dcm2niixBatch ==
    /\ LengthsAligned
    /\ Len(resolved) > 0
    /\ allow_multi_input
    /\ engine = DCM2NIIX
    /\ \A k \in DOMAIN resolved :
         resolved[k].ftype = DICOM /\ ~isfile(files0, out_datas[k])

NoBackendFailed == \A n \in DOMAIN invocations : invocations[n].result # "failed"

\* one dcm2niix invocation per item, in order, each named after its own
\* output; no log written, removed or confirmed
OnePerItemNoLogs ==
    /\ Len(invocations) = Len(resolved)
    /\ \A k \in DOMAIN invocations :
         /\ invocations[k].engine = DCM2NIIX
         /\ invocations[k].idx = k
         /\ invocations[k].input = resolved[k].abspath
         /\ invocations[k].o = dirname(out_datas[k])
         /\ invocations[k].f \o NiiGz = basename(out_datas[k])
         /\ \A m \in DOMAIN invocations :
              (m # k /\ out_datas[m] # out_datas[k]) =>
                  invocations[m].f # invocations[k].f
    /\ confirmed = {}
    /\ \A k \in DOMAIN log_datas : SameAt(log_datas[k]) /\ Untouched(log_datas[k])

\* C10 as stated: such a batch in which no backend run failed ends with one
\* dcm2niix invocation per item, each with the -f name of its own output
\* less ".nii.gz", and without any log.
C10_OneDcm2niixPerItem ==
    (Dcm2niixBatch /\ NoBackendFailed /\ Ended) =>
        (pc = "done" /\ OnePerItemNoLogs)

\* C10 as amended: the same for batches whose output paths all end in
\* ".nii.gz"; with any other converted_file_name the assert of line 94 aborts
\* the task at the first item before dcm2niix is invoked at all.
C10_OneDcm2niixPerItemNiiGz ==
    (Dcm2niixBatch /\ NoBackendFailed /\ Ended) =>
        IF \A k \in DOMAIN out_datas : endswith(out_datas[k], NiiGz)
        THEN pc = "done" /\ OnePerItemNoLogs
        ELSE pc = "aborted" /\ fault = "AssertionError" /\ invocations = <<>>

\* two DICOM inputs converted by two dcm2niix invocations over stale logs
C10_Witness ==
    /\ Dcm2niixBatch
    /\ pc = "done"
    /\ Len(invocations) = 2
    /\ invocations[1].f # invocations[2].f
    /\ isfile(files, out_datas[1]) /\ isfile(files, out_datas[2])
    /\ isfile(files, log_datas[1])

\* ------------------------------------------------------------------ C11
\* the moves of the per-item state machine
StatusMoves ==
    {<<"Pending", "Skipped">>, <<"Pending", "Converting">>,
     <<"Converting", "Converted">>, <<"Converting", "Fatal">>}

\* C11: in one task invocation the status of an item changes only along
\* Pending -> Skipped, Pending -> Converting, Converting -> Converted and
\* Converting -> Fatal, so Skipped, Converted and Fatal are terminal; after
\* every step each item has at most one backend invocation, a skipped item
\* has none, and at most one item is Fatal.
C11_ItemStateMachine ==
    [][/\ \A k \in DOMAIN status :
            status'[k] # status[k] => <<status[k], status'[k]>> \in StatusMoves
       /\ \A k \in DOMAIN status :
            /\ Cardinality({n \in DOMAIN invocations' : invocations'[n].idx = k}) <= 1
            /\ status'[k] = "Skipped" =>
                 {n \in DOMAIN invocations' : invocations'[n].idx = k} = {}
            /\ status'[k] \in {"Converting", "Converted", "Fatal"} =>
                 {n \in DOMAIN invocations' : invocations'[n].idx = k} # {}
       /\ Cardinality({k \in DOMAIN status : status'[k] = "Fatal"}) <= 1]_vars

\* item 1 was skipped and the backend failed on item 2
C11_Witness ==
    /\ pc = "aborted"
    /\ Len(status) = 2
    /\ status[1] = "Skipped"
    /\ status[2] = "Fatal"
    /\ Len(invocations) = 1

\* ------------------------------------------------------------------ C12
\* items are examined in index order, invocations are made in strictly
\* increasing index order, and only the last invocation can be in progress
SequentialInOrder ==
    /\ \A k \in DOMAIN seen :
         seen[k] # "unseen" => \A j \in 1..(k - 1) : seen[j] # "unseen"
    /\ \A n \in DOMAIN invocations :
         /\ \A m \in 1..(n - 1) : invocations[m].idx < invocations[n].idx
         /\ invocations[n].result = "running" =>
              (n = Len(invocations) /\ pc \in {"plastimatch", "dcm2nii"})
         /\ seen[invocations[n].idx] # "unseen"
    /\ pc \in {"plastimatch", "dcm2nii"} =>
         (invocations # <<>> /\ Current.result = "running" /\ Current.idx = i)

\* the examined item k was passed over as neither DICOM nor NRRD
PassedOver(k) ==
    /\ resolved[k].ftype \notin {DICOM, NRRD}
    /\ seen[k] # "unseen"
    /\ status[k] = "Pending"
    /\ InvFor(k) = {}

\* C12 as stated: examination and invocations are sequential and in index
\* order, and when an invocation for item j exists every item before j is
\* Skipped or Converted.
C12_EarlierItemsSkippedOrConverted ==
    /\ SequentialInOrder
    /\ \A n \in DOMAIN invocations :
         \A k \in 1..(invocations[n].idx - 1) :
             status[k] \in {"Skipped", "Converted"}

\* C12 as amended: the same, where an item before j has finished when it is
\* Skipped, Converted, or was passed over because its format is neither
\* DICOM nor NRRD (such an item is examined and left as it is).
C12_EarlierItemsFinished ==
    /\ SequentialInOrder
    /\ \A n \in DOMAIN invocations :
         \A k \in 1..(invocations[n].idx - 1) :
             status[k] \in {"Skipped", "Converted"} \/ PassedOver(k)

\* the backend runs for item 2 after the invocation for item 1 returned
C12_Witness ==
    /\ Len(invocations) = 2
    /\ invocations[1].result = "ok" /\ invocations[1].idx = 1
    /\ invocations[2].result = "running" /\ invocations[2].idx = 2
    /\ status[1] = "Converted"
    /\ status[2] = "Converting"

\* ------------------------------------------------------------------ C13
\* what the loop does with an examined item j, from the item alone: its
\* output at line 143, its format and the engine
OnOwnMerits(j) ==
    IF seen[j] = "present" /\ ~overwrite_existing_file
    THEN status[j] = "Skipped"
    ELSE LET b == SelectBackend(resolved[j].ftype, engine)
         IN  /\ b \in {"plastimatch", "dcm2niix"} /\ j < i =>
                  status[j] = "Converted"
             /\ b \in {"none", "unknown"} => status[j] = "Pending"

\* C13: with allow_multi_input true, a skipped item is never where the task
\* aborts and the loop moves past it; once the task has ended every item after
\* a skipped one was examined and skipped or converted on its own merits,
\* unless a fault aborted the task at an item in between; and a batch whose
\* items are all Skipped has not raised and, when ended, returned normally.
C13_SkipDoesNotStopBatch ==
    (LengthsAligned /\ allow_multi_input) =>
        /\ \A k \in DOMAIN status :
             status[k] = "Skipped" =>
                 /\ i > k
                 /\ \A j \in (k + 1)..Len(resolved) :
                      /\ seen[j] # "unseen" => OnOwnMerits(j)
                      /\ (Ended /\ seen[j] = "unseen") =>
                           (pc = "aborted" /\ k < i /\ i < j)
        /\ (Len(resolved) > 0 /\ \A k \in DOMAIN status : status[k] = "Skipped") =>
             (fault = "none" /\ pc \in {"loop", "done"})

\* a batch of two in which both items were skipped, returned normally
C13_Witness ==
    /\ allow_multi_input
    /\ pc = "done"
    /\ fault = "none"
    /\ Len(status) = 2
    /\ status[1] = "Skipped" /\ status[2] = "Skipped"
    /\ invocations = <<>>

\* ------------------------------------------------------------------ C14
\* the indices at which the originally resolved input collection holds the
\* input with path p
ResolvedAt(p) == {k \in DOMAIN resolved : resolved[k].abspath = p}

\* C14: the input a backend invocation is given stands at exactly one index
\* of the resolved input collection, and the invocation is given the output
\* at that index of out_datas; plastimatch is also given the log at that
\* index of log_datas, and dcm2niix's -o and -f name the output at that
\* index. This holds for a narrowed batch too.
C14_TriplesStayAligned ==
    \A n \in DOMAIN invocations :
        LET inv == invocations[n]
        IN  /\ ResolvedAt(inv.input) = {inv.idx}
            /\ \A k \in ResolvedAt(inv.input) :
                 /\ inv.output = out_datas[k]
                 /\ inv.engine = PLASTIMATCH => inv.log = log_datas[k]
                 /\ inv.engine = DCM2NIIX =>
                      Dcm2niixTarget(inv.o, inv.f) = out_datas[k]

\* plastimatch ran on the first input of a narrowed batch of two, with
\* output 1 and log 1, and left its log there
C14_Witness ==
    /\ Len(resolved) = 2
    /\ ~allow_multi_input
    /\ Len(invocations) = 1
    /\ invocations[1].engine = PLASTIMATCH
    /\ invocations[1].result = "ok"
    /\ invocations[1].input = resolved[1].abspath
    /\ invocations[1].output = out_datas[1]
    /\ invocations[1].log = log_datas[1]
    /\ log_datas[1] \in confirmed

\* ------------------------------------------------------------------ C15
\* C15: when the three collections do not all have the same length the task
\* never gets past its asserts: nothing is printed, no backend is invoked, no
\* file is written or removed, no item is examined, and the task can only
\* end aborted with the AssertionError, never by returning.
C15_MisalignedAborts ==
    ~LengthsAligned =>
        /\ messages = <<>>
        /\ invocations = <<>>
        /\ fsops = <<>>
        /\ files = files0
        /\ confirmed = {}
        /\ \A k \in DOMAIN seen : seen[k] = "unseen" /\ status[k] = "Pending"
        /\ pc \in {"start", "aborted"}
        /\ pc = "aborted" <=> fault = "AssertionError"
        /\ pc = "start" <=> fault = "none"

\* two inputs with one log too few, files on disk: aborted by the assert
C15_Witness ==
    /\ Len(resolved) = 2
    /\ Len(out_datas) = 2
    /\ Len(log_datas) = 1
    /\ isfile(files, out_datas[1])
    /\ pc = "aborted"
    /\ fault = "AssertionError"

\* ------------------------------------------------------------------ C16
\* the engine is one of the two members of NiftiConverterEngine
EngineSupported == engine \in {PLASTIMATCH, DCM2NIIX}

\* C16, second half as stated: once the task has ended, if no backend
\* invocation failed and the engine is supported (the collections being
\* aligned), every item of the narrowed batch is Skipped or Converted.
C16_AllSkippedOrConverted ==
    (Ended /\ LengthsAligned /\ NoBackendFailed /\ EngineSupported) =>
        \A k \in Processed : status[k] \in {"Skipped", "Converted"}

\* the task has returned normally, every DICOM or NRRD item of the narrowed
\* batch is Skipped or Converted, every other item is Skipped or was passed
\* over and is still Pending
ReturnedAllHandled ==
    /\ pc = "done"
    /\ fault = "none"
    /\ \A k \in Processed :
         IF resolved[k].ftype \in {DICOM, NRRD}
         THEN status[k] \in {"Skipped", "Converted"}
         ELSE status[k] = "Skipped" \/ PassedOver(k)

\* every output path ends in ".nii.gz" when the engine is dcm2niix
SuffixFitsEngine ==
    engine = DCM2NIIX => \A k \in DOMAIN out_datas : endswith(out_datas[k], NiiGz)

\* C16 as amended: when every backend call returns or fails (SpecFair) the
\* task ends; and once it has ended, if no backend invocation failed, the
\* engine is supported, the collections are aligned and the output paths end
\* in ".nii.gz" when the engine is dcm2niix, the task has returned and every
\* DICOM or NRRD item of the narrowed batch is Skipped or Converted, while an
\* item of another format that is not skipped stays Pending.
C16_TerminatesAllHandled ==
    /\ <>Ended
    /\ []((Ended /\ LengthsAligned /\ NoBackendFailed /\ EngineSupported
           /\ SuffixFitsEngine) => ReturnedAllHandled)

\* the task returned from a batch of a converted NRRD item and a DICOM item
\* converted by dcm2niix
C16_Witness ==
    /\ pc = "done"
    /\ engine = DCM2NIIX
    /\ Len(in_datas) = 2
    /\ resolved[1].ftype = NRRD /\ status[1] = "Converted"
    /\ resolved[2].ftype = DICOM /\ status[2] = "Converted"
    /\ NoBackendFailed

\* ------------------------------------------------------------------ C17
\* with overwrite enabled nothing is skipped and nothing reported as existing
NothingSkipped ==
    /\ \A n \in DOMAIN messages : messages[n].kind # "exists"
    /\ \A k \in DOMAIN status : status[k] # "Skipped"

\* C17 as stated: with overwrite_existing_file true nothing is skipped, and
\* every DICOM or NRRD item the loop has examined was handed to a backend,
\* whether or not its output was on disk.
C17_OverwriteAlwaysInvokes ==
    (LengthsAligned /\ overwrite_existing_file) =>
        /\ NothingSkipped
        /\ \A k \in DOMAIN resolved :
             (seen[k] # "unseen" /\ resolved[k].ftype \in {DICOM, NRRD}) =>
                 InvFor(k) # {}

\* the examined DICOM item k is one the task aborts at before any backend
\* call: unsupported engine, or dcm2niix with an output not ending ".nii.gz"
AbortsBeforeBackend(k) ==
    /\ resolved[k].ftype = DICOM
    /\ \/ ~EngineSupported
       \/ engine = DCM2NIIX /\ ~endswith(out_datas[k], NiiGz)

\* C17 as amended: with overwrite_existing_file true nothing is skipped, and
\* every examined NRRD item, and every examined DICOM item unless the engine
\* is unsupported or is dcm2niix with an output path not ending in ".nii.gz",
\* was handed to a backend exactly once, whether or not its output was on
\* disk; in the two excepted cases the task aborts at the item with the
\* ValueError or AssertionError and no backend is invoked for it.
C17_OverwriteInvokesUnlessConfigFault ==
    (LengthsAligned /\ overwrite_existing_file) =>
        /\ NothingSkipped
        /\ \A k \in DOMAIN resolved :
             (seen[k] # "unseen" /\ resolved[k].ftype \in {DICOM, NRRD}) =>
                 IF AbortsBeforeBackend(k)
                 THEN /\ InvFor(k) = {}
                      /\ pc = "aborted" /\ i = k
                      /\ fault = IF EngineSupported THEN "AssertionError"
                                 ELSE "ValueError"
                 ELSE Cardinality(InvFor(k)) = 1

\* an item whose output was on disk was converted again and its file replaced
C17_Witness ==
    /\ overwrite_existing_file
    /\ Len(seen) >= 1
    /\ seen[1] = "present"
    /\ status[1] = "Converted"
    /\ files0[out_datas[1]] = Pre
    /\ files[out_datas[1]] # Pre
    /\ messages = <<>>

\* ------------------------------------------------------------------ C18
\* the log path lp was confirmed by a plastimatch invocation of this task
\* invocation that returned and left the file now at lp
ConfirmedByEngineA(lp) ==
    \E n \in DOMAIN invocations :
        /\ invocations[n].engine = PLASTIMATCH
        /\ invocations[n].log = lp
        /\ invocations[n].result = "ok"
        /\ isfile(files, lp)
        /\ files[lp] = Written(PLASTIMATCH, run, invocations[n].idx)

\* C18: every confirmed LogArtifact belongs to an item plastimatch was
\* invoked for and returned from in this task invocation, with the log that
\* invocation wrote on disk; the logs of items that are skipped, dropped by
\* narrowing, handed to dcm2niix, not yet or never examined, or whose backend
\* has not returned are not confirmed, stale log or not.
C18_ConfirmedOnlyByEngineA ==
    /\ \A lp \in confirmed : ConfirmedByEngineA(lp)
    /\ \A k \in DOMAIN log_datas :
         (k \in DOMAIN status /\ log_datas[k] \in confirmed) =>
             /\ status[k] = "Converted"
             /\ k <= Len(in_datas)
             /\ k < i
             /\ \A n \in InvFor(k) : invocations[n].engine = PLASTIMATCH

\* item 1 was skipped over a stale log that stays unconfirmed; item 2 was
\* converted by plastimatch and its log confirmed
C18_Witness ==
    /\ Len(status) = 2 /\ Len(log_datas) = 2
    /\ status[1] = "Skipped"
    /\ isfile(files, log_datas[1])
    /\ status[2] = "Converted"
    /\ confirmed = {log_datas[2]}

\* ------------------------------------------------------------------ C19
\* the item k is neither DICOM nor NRRD, was examined and was not skipped
OtherFormatNotSkipped(k) ==
    /\ resolved[k].ftype \notin {DICOM, NRRD}
    /\ seen[k] # "unseen"
    /\ ~(seen[k] = "present" /\ ~overwrite_existing_file)

\* C19: an examined, not skipped item that is neither DICOM nor NRRD has no
\* backend invocation, its output and log paths are neither written nor
\* removed, nothing was printed for it, its log is not confirmed, it stays
\* Pending, the task did not abort at it and the loop has moved past it,
\* whatever the engine; a batch of such items alone returns without a fault.
C19_OtherFormatPassedOver ==
    /\ \A k \in DOMAIN resolved :
         (LengthsAligned /\ OtherFormatNotSkipped(k)) =>
             /\ InvFor(k) = {}
             /\ SameAt(out_datas[k]) /\ Untouched(out_datas[k])
             /\ SameAt(log_datas[k]) /\ Untouched(log_datas[k])
             /\ ExistsMsg(out_datas[k]) \notin Range(messages)
             /\ log_datas[k] \notin confirmed
             /\ status[k] = "Pending"
             /\ i > k
             /\ pc \in {"loop", "plastimatch", "dcm2nii", "done", "aborted"}
    /\ (LengthsAligned /\ Len(resolved) > 0
        /\ \A k \in DOMAIN resolved : OtherFormatNotSkipped(k)) =>
           /\ fault = "none"
           /\ pc \in {"loop", "done"}
           /\ invocations = <<>> /\ fsops = <<>> /\ files = files0
           /\ \A n \in DOMAIN messages : messages[n] = MultiWarning

\* under an unsupported engine, item 1 of another format was passed over
\* although its output is on disk and may be overwritten, and item 2 was
\* examined after it
C19_Witness ==
    /\ engine = OTHER_ENGINE
    /\ overwrite_existing_file
    /\ Len(seen) = 2
    /\ resolved[1].ftype = OTHER_FTYPE
    /\ seen[1] = "present"
    /\ status[1] = "Pending"
    /\ seen[2] # "unseen"
    /\ fsops = <<>>

====
